---- MODULE Spec2Model ----
(***************************************************************************)
(* react-construct: the continuation-passing pipeline of src/index.js.     *)
(*                                                                         *)
(* Construct({ definition, resolvers, render }) folds the definition from  *)
(* the right into one chain of closures and calls it with null.  Each      *)
(* closure looks its step's resolver up and calls it with (previous,       *)
(* current, next).  The model runs one invocation step by step: a control  *)
(* record says what executes next, a stack holds the activations that wait *)
(* for a callee's value, and a log records what the handlers were given.   *)
(***************************************************************************)
EXTENDS Integers, Sequences, FiniteSets, TLC

VARIABLES
    props,        \* the argument object of the Construct call
    heap,         \* the Step objects, by reference
    constructed,  \* the chain built by reduceRight
    ctl,          \* what executes next
    stack,        \* activations waiting for a callee to return
    log,          \* history: handler calls, next calls, returns, terminal calls
    result,       \* the outcome of the Construct call
    cache,        \* FETCH_CACHE of the README's Fetch component, by url
    fetches,      \* the fetch(url) operations started, in order
    consumers     \* the mounted Fetch components

pipelineVars == <<props, heap, constructed, ctl, stack, log, result>>
fetchVars == <<cache, fetches, consumers>>
vars == <<props, heap, constructed, ctl, stack, log, result, cache, fetches, consumers>>

----------------------------------------------------------------------------
(* Bounds of the model *)

MaxDef == 3
MaxRes == 2

----------------------------------------------------------------------------
(* JavaScript values *)

Null == [tag |-> "null", n |-> 0]
Undefined == [tag |-> "undefined", n |-> 0]
Num(k) == [tag |-> "number", n |-> k]
TypeError == [tag |-> "TypeError", n |-> 0]

\* previous + 1: null converts to 0, undefined to NaN
JsAddOne(v) ==
    CASE v.tag = "number" -> Num(v.n + 1)
      [] v.tag = "null" -> Num(1)
      [] OTHER -> [tag |-> "NaN", n |-> 0]

STARTING_VALUE == 10

\* the <img src={dogImageUrl} /> element of the README's render function
renderWithDog(dogImageUrl) == [tag |-> "img", src |-> dogImageUrl]

----------------------------------------------------------------------------
(* The inputs: step types, handlers, render functions *)

Types == {"start", "increment"}

\* the resolver functions of the test suite
Handlers == {"startResolver", "incrementResolver", "mockResolver"}

\* render as the caller passes it: left out, null, or a function
Renders == {"undefined", "null", "renderWithDog"}

Steps == [type : Types]
ResolverEntries == [type : Types, resolverFunc : Handlers]

SeqsUpTo(S, n) == UNION {[1..k -> S] : k \in 0..n}

----------------------------------------------------------------------------
(* Function values *)

identity == [fn |-> "identity"]
identityResolver == "identityResolver"
unbuilt == [fn |-> "unbuilt"]

\* what a lookup yields when it yields no function
noResolver == "undefined"

\* mutant: the chain is seeded with what the last invocation returned
initialPreviousOfLastResult == result.value

\* mutant: the chain called without an argument
initialPreviousMissing == Undefined

\* the seed of the chain: constructed(null)
initialPrevious == Null

\* mutant: the last entry of that type
findLast(resolvers, type) ==
    IF \E i \in 1..Len(resolvers) : resolvers[i].type = type
    THEN CHOOSE i \in 1..Len(resolvers) :
            /\ resolvers[i].type = type
            /\ \A j \in (i + 1)..Len(resolvers) : resolvers[j].type # type
    ELSE 0

\* resolvers.find(resolver => resolver.type === type): the index of the
\* first entry of that type, 0 when find returns undefined
find(resolvers, type) ==
    IF \E i \in 1..Len(resolvers) : resolvers[i].type = type
    THEN CHOOSE i \in 1..Len(resolvers) :
            /\ resolvers[i].type = type
            /\ \A j \in 1..(i - 1) : resolvers[j].type # type
    ELSE 0

\* mutant: find(...).resolverFunc, without the identity default
getResolverWithoutDefault(resolvers, current) ==
    LET found == find(resolvers, current.type)
    IN  IF found # 0 THEN resolvers[found].resolverFunc ELSE noResolver

\* (find(...) || { resolverFunc: identityResolver }).resolverFunc
getResolver(resolvers, current) ==
    LET found == find(resolvers, current.type)
    IN  IF found # 0 THEN resolvers[found].resolverFunc ELSE identityResolver

\* mutant: the closure of a step wraps itself, running the step twice
reducerTwice(next, current) ==
    [fn |-> "closure", current |-> current,
     next |-> [fn |-> "closure", current |-> current, next |-> next]]

\* (next, current) => previous => getResolver(current)(previous, current, next)
reducer(next, current) == [fn |-> "closure", current |-> current, next |-> next]

\* mutant: the identity function whatever render is
terminalIgnoringRender(render) == identity

\* mutant: render without the identity default
terminalWithoutDefault(render) == [fn |-> render]

\* render || identity
terminal(render) ==
    IF render \in {"undefined", "null"} THEN identity ELSE [fn |-> render]

\* mutant: reduce, folding from the first element to the last
RECURSIVE reduceLeft(_, _)
reduceLeft(definition, initialValue) ==
    IF definition = <<>>
    THEN initialValue
    ELSE reduceLeft(Tail(definition), reducer(initialValue, Head(definition)))

\* definition.reduceRight(callback, initialValue): the accumulator starts at
\* initialValue and takes the elements from the last to the first
RECURSIVE reduceRight(_, _)
reduceRight(definition, initialValue) ==
    IF definition = <<>>
    THEN initialValue
    ELSE reduceRight(SubSeq(definition, 1, Len(definition) - 1),
                     reducer(initialValue, definition[Len(definition)]))

\* mutant: the closure passes the handler's value on to next
ResumeIntoNext(frame, value) == [op |-> "apply", f |-> frame.next, arg |-> value]

\* what an activation does with the value its callee returned: the closure
\* returns the handler's value, the handlers return the value of next(...)
Resume(frame, value) == [op |-> "return", value |-> value]

\* no Fetch component is mounted, nothing was fetched
Urls == {"u1", "u2"}
absentEntry == [status |-> "absent", response |-> Null]
NoFetchComponents ==
    /\ cache = [u \in Urls |-> absentEntry]
    /\ fetches = <<>>
    /\ consumers = <<>>

----------------------------------------------------------------------------
(* The state after the caller has built the arguments *)

Init ==
    /\ \E steps \in SeqsUpTo(Steps, MaxDef),
          resolvers \in SeqsUpTo(ResolverEntries, MaxRes),
          render \in Renders,
          hasDefinition \in BOOLEAN,
          hasResolvers \in BOOLEAN :
        /\ hasDefinition \/ steps = <<>>
        /\ hasResolvers \/ resolvers = <<>>
        /\ heap = steps
        /\ props = [hasDefinition |-> hasDefinition,
                    definition |-> [i \in 1..Len(steps) |-> i],
                    hasResolvers |-> hasResolvers,
                    resolvers |-> resolvers,
                    render |-> render]
    /\ constructed = unbuilt
    /\ ctl = [op |-> "entry"]
    /\ stack = <<>>
    /\ log = <<>>
    /\ result = [status |-> "none", value |-> Undefined]
    /\ NoFetchComponents

----------------------------------------------------------------------------
(* Construct: build the chain and call it with null *)

Construct ==
    /\ ctl.op = "entry"
    /\ stack' = <<[fn |-> "Construct"]>>
    /\ IF props.hasDefinition
       THEN /\ constructed' = reduceRight(props.definition, terminal(props.render))
            /\ ctl' = [op |-> "apply", f |-> constructed', arg |-> initialPrevious]
       ELSE \* definition.reduceRight of undefined
            /\ constructed' = constructed
            /\ ctl' = [op |-> "throw", error |-> TypeError]
    /\ UNCHANGED <<props, heap, log, result>>
    /\ UNCHANGED fetchVars

\* previous => getResolver(current)(previous, current, next)
ApplyClosure ==
    /\ ctl.op = "apply"
    /\ ctl.f.fn = "closure"
    /\ IF /\ props.hasResolvers
          /\ getResolver(props.resolvers, heap[ctl.f.current]) # noResolver
       THEN LET current == ctl.f.current
                handler == getResolver(props.resolvers, heap[current])
            IN  /\ ctl' = [op |-> "body", handler |-> handler,
                           previous |-> ctl.arg, current |-> current,
                           next |-> ctl.f.next]
                /\ stack' = Append(stack, [fn |-> "closure", handler |-> handler,
                                           current |-> current, next |-> ctl.f.next])
                /\ log' = Append(log, [ev |-> "call",
                                       entry |-> find(props.resolvers, heap[current].type),
                                       handler |-> handler, previous |-> ctl.arg,
                                       current |-> current, next |-> ctl.f.next])
       ELSE \* resolvers.find of undefined, or no function to call
            /\ ctl' = [op |-> "throw", error |-> TypeError]
            /\ UNCHANGED <<stack, log>>
    /\ UNCHANGED <<props, heap, constructed, result>>
    /\ UNCHANGED fetchVars

\* a handler calls next(value)
CallNext(value) ==
    /\ ctl' = [op |-> "apply", f |-> ctl.next, arg |-> value]
    /\ log' = Append(log, [ev |-> "next", by |-> ctl.current, value |-> value])
    /\ UNCHANGED <<props, heap, constructed, stack, result>>
    /\ UNCHANGED fetchVars

\* (previous, current, next) => next(STARTING_VALUE)
startResolver ==
    /\ ctl.op = "body"
    /\ ctl.handler = "startResolver"
    /\ CallNext(Num(STARTING_VALUE))

\* (previous, current, next) => next(previous + 1)
incrementResolver ==
    /\ ctl.op = "body"
    /\ ctl.handler = "incrementResolver"
    /\ CallNext(JsAddOne(ctl.previous))

\* (previous, current, next) => next(previous)
identityResolverCall ==
    /\ ctl.op = "body"
    /\ ctl.handler = identityResolver
    /\ CallNext(ctl.previous)

\* jest.fn(): records the call and returns undefined
mockResolver ==
    /\ ctl.op = "body"
    /\ ctl.handler = "mockResolver"
    /\ ctl' = [op |-> "return", value |-> Undefined]
    /\ UNCHANGED <<props, heap, constructed, stack, log, result>>
    /\ UNCHANGED fetchVars

\* the end of the chain: x => x, or the caller's render
ApplyTerminal ==
    /\ ctl.op = "apply"
    /\ ctl.f.fn \notin {"closure", "dependencyRender"}
    /\ CASE ctl.f.fn = "identity" ->
                /\ ctl' = [op |-> "return", value |-> ctl.arg]
                /\ log' = Append(log, [ev |-> "terminal", f |-> ctl.f, arg |-> ctl.arg])
         [] ctl.f.fn = "renderWithDog" ->
                /\ ctl' = [op |-> "return", value |-> renderWithDog(ctl.arg)]
                /\ log' = Append(log, [ev |-> "terminal", f |-> ctl.f, arg |-> ctl.arg])
         [] OTHER -> \* calling what is not a function
                /\ ctl' = [op |-> "throw", error |-> TypeError]
                /\ log' = log
    /\ UNCHANGED <<props, heap, constructed, stack, result>>
    /\ UNCHANGED fetchVars

\* the innermost activation gets its callee's value
Return ==
    /\ ctl.op = "return"
    /\ stack # <<>>
    /\ LET frame == stack[Len(stack)]
       IN  /\ stack' = SubSeq(stack, 1, Len(stack) - 1)
           /\ IF frame.fn = "Construct"
              THEN /\ result' = [status |-> "returned", value |-> ctl.value]
                   /\ ctl' = [op |-> "done"]
                   /\ log' = log
              ELSE /\ result' = result
                   /\ ctl' = Resume(frame, ctl.value)
                   /\ log' = Append(log, [ev |-> "return", by |-> frame.current,
                                          value |-> ctl.value])
    /\ UNCHANGED <<props, heap, constructed>>
    /\ UNCHANGED fetchVars

\* nothing in the chain catches: the exception leaves Construct
Throw ==
    /\ ctl.op = "throw"
    /\ stack' = <<>>
    /\ result' = [status |-> "threw", value |-> ctl.error]
    /\ ctl' = [op |-> "done"]
    /\ UNCHANGED <<props, heap, constructed, log>>
    /\ UNCHANGED fetchVars

Next ==
    \/ Construct
    \/ ApplyClosure
    \/ startResolver
    \/ incrementResolver
    \/ identityResolverCall
    \/ mockResolver
    \/ ApplyTerminal
    \/ Return
    \/ Throw

Spec == Init /\ [][Next]_vars

----------------------------------------------------------------------------
(* Vocabulary of the properties *)

Done == ctl.op = "done"
Returned == result.status = "returned"
N == Len(props.definition)

\* the positions of the log where step i's handler was called, where it
\* called next, and where it returned
CallsOf(i) == {k \in 1..Len(log) : log[k].ev = "call" /\ log[k].current = props.definition[i]}
NextsOf(i) == {k \in 1..Len(log) : log[k].ev = "next" /\ log[k].by = props.definition[i]}
ReturnsOf(i) == {k \in 1..Len(log) : log[k].ev = "return" /\ log[k].by = props.definition[i]}
CallEvents == {k \in 1..Len(log) : log[k].ev = "call"}
TerminalEvents == {k \in 1..Len(log) : log[k].ev = "terminal"}

\* the terminal continuation as the caller means it
RenderSupplied == props.render = "renderWithDog"
TerminalOf(value) == IF RenderSupplied THEN renderWithDog(value) ELSE value

\* no handler that was called is one that returns without calling next
EveryHandlerCallsNext ==
    /\ props.hasDefinition
    /\ props.hasResolvers
    /\ \A k \in CallEvents : log[k].handler # "mockResolver"

StartIncrementIncrement ==
    /\ props.hasDefinition
    /\ props.hasResolvers
    /\ heap = <<[type |-> "start"], [type |-> "increment"], [type |-> "increment"]>>
    /\ props.resolvers = <<[type |-> "start", resolverFunc |-> "startResolver"],
                           [type |-> "increment", resolverFunc |-> "incrementResolver"]>>
    /\ ~RenderSupplied

----------------------------------------------------------------------------
\* C1: when every handler calls next once, each step after the first is
\* called with the value the step before it passed to next, and Construct
\* returns the terminal continuation applied to the value the last step
\* passed to next; [start, increment, increment] yields 12.
C1_Threading ==
    (Done /\ N >= 1 /\ EveryHandlerCallsNext) =>
        /\ Returned
        /\ \A i \in 1..N :
            /\ Cardinality(CallsOf(i)) = 1
            /\ Cardinality(NextsOf(i)) = 1
        /\ \A i \in 2..N : \A c \in CallsOf(i) : \A n \in NextsOf(i - 1) :
            log[c].previous = log[n].value
        /\ \A n \in NextsOf(N) : result.value = TerminalOf(log[n].value)
        /\ StartIncrementIncrement => result.value = Num(12)

C1_Witness ==
    /\ Done
    /\ StartIncrementIncrement
    /\ result = [status |-> "returned", value |-> Num(12)]

\* C2: a step whose type has a registered resolver, reached through handlers
\* that each called next once, has its handler called exactly once, with
\* current being the Step object of the definition itself.
C2_CalledOnceWithTheStep ==
    /\ \A k \in CallEvents : \E i \in 1..N : log[k].current = props.definition[i]
    /\ \A i \in 1..N :
        ( /\ props.hasResolvers
          /\ \E j \in 1..Len(props.resolvers) : props.resolvers[j].type = heap[i].type
          /\ \A u \in 1..(i - 1) : Cardinality(NextsOf(u)) = 1 )
        => /\ Cardinality(CallsOf(i)) <= 1
           /\ Done => Cardinality(CallsOf(i)) = 1
           /\ \A k \in CallsOf(i) :
                \E j \in 1..Len(props.resolvers) :
                    /\ props.resolvers[j].type = heap[i].type
                    /\ props.resolvers[j].resolverFunc = log[k].handler

\* the test's case: one step, one resolver of its type, the mock called once
C2_Witness ==
    /\ Done
    /\ N = 1
    /\ props.resolvers = <<[type |-> heap[1].type, resolverFunc |-> "mockResolver"]>>
    /\ Cardinality(CallEvents) = 1
    /\ \E k \in CallEvents :
        log[k].current = props.definition[1] /\ log[k].handler = "mockResolver"

\* C3: an empty definition with an empty resolvers list raises nothing and
\* returns the terminal continuation applied to null, which is null when
\* render is left out or null; no handler is called.
C3_EmptyArguments ==
    ( /\ Done
      /\ props.hasDefinition /\ props.definition = <<>>
      /\ props.hasResolvers /\ props.resolvers = <<>> )
    => /\ Returned
       /\ result.value = TerminalOf(Null)
       /\ ~RenderSupplied => result.value = Null
       /\ CallEvents = {}

C3_Witness ==
    /\ Done
    /\ props.hasDefinition /\ props.definition = <<>>
    /\ props.hasResolvers /\ props.resolvers = <<>>
    /\ props.render = "null"
    /\ result = [status |-> "returned", value |-> Null]

\* C4: a call without definition, or without resolvers, fails with an error
\* before any handler is called.
C4_MissingArgumentsThrow ==
    (Done /\ (~props.hasDefinition \/ ~props.hasResolvers)) =>
        /\ result.status = "threw"
        /\ CallEvents = {}

\* C5: with a non-empty definition, the first step's handler is called with
\* previous = null.
C5_FirstPreviousIsNull ==
    /\ \A k \in CallEvents :
        (N >= 1 /\ log[k].current = props.definition[1]) => log[k].previous = Null
    /\ (Done /\ N >= 1 /\ props.hasResolvers) => CallsOf(1) # {}

C5_Witness ==
    /\ Done
    /\ N >= 2
    /\ \E k \in CallsOf(1) : log[k].previous = Null
    /\ \E k \in CallsOf(2) : log[k].previous = Num(STARTING_VALUE)

\* C6: the last step's handler gets the caller's render as next when one is
\* supplied and the identity function otherwise; every other step's handler
\* gets the continuation of the step right after it.
C6_NextOfEachStep ==
    \A i \in 1..N : \A k \in CallsOf(i) :
        IF i = N
        THEN log[k].next = IF RenderSupplied THEN [fn |-> "renderWithDog"] ELSE identity
        ELSE /\ log[k].next.fn = "closure"
             /\ log[k].next.current = props.definition[i + 1]

C6_Witness ==
    /\ Done
    /\ N >= 2
    /\ RenderSupplied
    /\ \E k \in CallsOf(N) : log[k].next = [fn |-> "renderWithDog"]
    /\ \E k \in CallsOf(1) : log[k].next.fn = "closure"

\* C7: handlers run in definition order: a step's handler is called only
\* after the handler of the step before it was called and called next, and
\* the terminal continuation only after the last step's handler called next.
C7_DefinitionOrder ==
    /\ \A i \in 2..N : \A k \in CallsOf(i) :
        \E a \in CallsOf(i - 1) : \E b \in NextsOf(i - 1) : a < b /\ b < k
    /\ \A k \in TerminalEvents :
        N >= 1 => \E a \in CallsOf(N) : \E b \in NextsOf(N) : a < b /\ b < k

C7_Witness ==
    /\ Done
    /\ N = MaxDef
    /\ TerminalEvents # {}
    /\ \A i \in 1..N : CallsOf(i) # {}

\* C8: when a step's handler returns without having called next, no later
\* step's handler and no terminal continuation is called, and Construct
\* returns that handler's value, which every handler before it hands up.
StoppedAt(i) == ReturnsOf(i) # {} /\ NextsOf(i) = {}

C8_StopWithoutNext ==
    \A i \in 1..N : StoppedAt(i) =>
        /\ \A j \in (i + 1)..N : CallsOf(j) = {}
        /\ TerminalEvents = {}
        /\ \A r \in ReturnsOf(i) :
            /\ \A u \in 1..(i - 1) : \A q \in ReturnsOf(u) : log[q].value = log[r].value
            /\ Done => (Returned /\ result.value = log[r].value)

C8_Witness ==
    /\ Done
    /\ N = 3
    /\ StoppedAt(2)
    /\ NextsOf(1) # {}
    /\ ReturnsOf(1) # {}
    /\ result = [status |-> "returned", value |-> Undefined]

\* C9: a step whose type no entry of resolvers has is handled by the
\* identity resolver: nothing is raised, and the next step's handler, or the
\* terminal continuation after the last step, gets the previous it got.
Unmatched(i) ==
    /\ props.hasResolvers
    /\ \A j \in 1..Len(props.resolvers) : props.resolvers[j].type # heap[i].type

C9_UnmatchedTypeForwards ==
    \A i \in 1..N : Unmatched(i) =>
        /\ \A k \in CallsOf(i) :
            /\ log[k].handler = identityResolver
            /\ \A c \in (IF i < N THEN CallsOf(i + 1) ELSE {}) :
                log[c].previous = log[k].previous
            /\ \A t \in (IF i = N THEN TerminalEvents ELSE {}) :
                log[t].arg = log[k].previous
        /\ (Done /\ \A u \in 1..(i - 1) : NextsOf(u) # {}) =>
            /\ result.status # "threw"
            /\ CallsOf(i) # {}
            /\ IF i < N THEN CallsOf(i + 1) # {} ELSE TerminalEvents # {}

C9_Witness ==
    /\ Done
    /\ N = 3
    /\ Unmatched(2)
    /\ \E k \in CallsOf(2) : log[k].previous = Num(STARTING_VALUE)
    /\ \E c \in CallsOf(3) : log[c].previous = Num(STARTING_VALUE)

\* C10: among several entries of resolvers with one type, the handler called
\* for a step of that type is the first entry's; no later entry is used.
C10_FirstMatchWins ==
    \A i \in 1..N : \A k \in CallsOf(i) : \A j \in 1..Len(props.resolvers) :
        ( /\ props.resolvers[j].type = heap[i].type
          /\ \A e \in 1..(j - 1) : props.resolvers[e].type # heap[i].type )
        => /\ log[k].entry = j
           /\ log[k].handler = props.resolvers[j].resolverFunc

C10_Witness ==
    /\ Len(props.resolvers) = 2
    /\ props.resolvers[1].type = props.resolvers[2].type
    /\ props.resolvers[1].resolverFunc # props.resolvers[2].resolverFunc
    /\ \E k \in CallEvents :
        /\ heap[log[k].current].type = props.resolvers[1].type
        /\ log[k].handler = props.resolvers[1].resolverFunc

----------------------------------------------------------------------------
(* requiredArgsEnhancer (README): a resolver wrapped by a gate on the       *)
(* arguments its step requires                                              *)

MaxGateDef == 2

RequiredArgsEnhanced ==
    {"requiredArgsEnhancer(startResolver)",
     "requiredArgsEnhancer(incrementResolver)",
     "requiredArgsEnhancer(mockResolver)"}

\* the resolver a requiredArgsEnhancer(resolver) closes over
gatedResolver(enhanced) ==
    CASE enhanced = "requiredArgsEnhancer(startResolver)" -> "startResolver"
      [] enhanced = "requiredArgsEnhancer(incrementResolver)" -> "incrementResolver"
      [] enhanced = "requiredArgsEnhancer(mockResolver)" -> "mockResolver"

\* steps of the gate's pipelines: type, an optional requiredArgs array, and
\* an optional property x
GateSteps ==
    [type : {"start", "gated"},
     hasRequiredArgs : BOOLEAN,
     requiredArgs : {<<>>, <<"x">>, <<"previous">>, <<"x", "previous">>},
     hasX : BOOLEAN]

\* Object.keys(current) as the language defines it
OwnKeys(step) ==
    {"type"} \cup (IF step.hasRequiredArgs THEN {"requiredArgs"} ELSE {})
             \cup (IF step.hasX THEN {"x"} ELSE {})

InitGate ==
    /\ \E steps \in SeqsUpTo(GateSteps, MaxGateDef),
          enhanced \in RequiredArgsEnhanced,
          render \in Renders :
        /\ \A i \in 1..Len(steps) :
            /\ steps[i].hasRequiredArgs \/ steps[i].requiredArgs = <<>>
            /\ steps[i].type = "start" =>
                (~steps[i].hasRequiredArgs /\ ~steps[i].hasX)
        /\ heap = steps
        /\ props = [hasDefinition |-> TRUE,
                    definition |-> [i \in 1..Len(steps) |-> i],
                    hasResolvers |-> TRUE,
                    resolvers |-> <<[type |-> "start", resolverFunc |-> "startResolver"],
                                    [type |-> "gated", resolverFunc |-> enhanced]>>,
                    render |-> render]
    /\ constructed = unbuilt
    /\ ctl = [op |-> "entry"]
    /\ stack = <<>>
    /\ log = <<>>
    /\ result = [status |-> "none", value |-> Undefined]
    /\ NoFetchComponents

\* resolver => (previous, current, next) => { ... }
requiredArgsEnhancer ==
    /\ ctl.op = "body"
    /\ ctl.handler \in RequiredArgsEnhanced
    /\ IF ~heap[ctl.current].hasRequiredArgs
       THEN \* return resolver(previous, current, next)
            /\ ctl' = [ctl EXCEPT !.handler = gatedResolver(ctl.handler)]
            /\ log' = Append(log, [ev |-> "inner", by |-> ctl.current,
                                   handler |-> gatedResolver(ctl.handler),
                                   previous |-> ctl.previous, current |-> ctl.current,
                                   next |-> ctl.next])
       ELSE \* Object.Keys(current): Object has no property Keys, and calling
            \* undefined throws a TypeError
            /\ ctl' = [op |-> "throw", error |-> TypeError]
            /\ log' = log
    /\ UNCHANGED <<props, heap, constructed, stack, result>>
    /\ UNCHANGED fetchVars

NextGate ==
    \/ Construct
    \/ ApplyClosure
    \/ startResolver
    \/ incrementResolver
    \/ mockResolver
    \/ requiredArgsEnhancer
    \/ ApplyTerminal
    \/ Return
    \/ Throw

SpecGate == InitGate /\ [][NextGate]_vars

\* the positions of the log where a wrapped resolver was called for step i
InnerCallsOf(i) ==
    {k \in 1..Len(log) : log[k].ev = "inner" /\ log[k].by = props.definition[i]}

\* the names the gate counts as available: the keys of current, and
\* 'previous' when previous is not null
AvailableArgs(step, previous) ==
    OwnKeys(step) \cup (IF previous # Null THEN {"previous"} ELSE {})

GateOpens(step, previous) ==
    \/ ~step.hasRequiredArgs
    \/ \A a \in 1..Len(step.requiredArgs) :
        step.requiredArgs[a] \in AvailableArgs(step, previous)

\* C11: the gate calls the wrapped resolver, with the arguments it got,
\* exactly when current declares no requiredArgs or every required name is a
\* key of current or 'previous' with previous not null; otherwise the wrapped
\* resolver is not called and the gate calls next(null) once.
C11_RequiredArgsGate ==
    \A i \in 1..N : \A k \in CallsOf(i) :
        (Done /\ log[k].handler \in RequiredArgsEnhanced) =>
            IF GateOpens(heap[i], log[k].previous)
            THEN /\ Cardinality(InnerCallsOf(i)) = 1
                 /\ \A c \in InnerCallsOf(i) :
                    /\ log[c].previous = log[k].previous
                    /\ log[c].current = log[k].current
                    /\ log[c].next = log[k].next
            ELSE /\ InnerCallsOf(i) = {}
                 /\ Cardinality(NextsOf(i)) = 1
                 /\ \A n \in NextsOf(i) : log[n].value = Null


----------------------------------------------------------------------------
(* dynamicDependencyEnhancer (README): a resolver wrapped so that a step's  *)
(* dependency is resolved by a nested Construct before the resolver runs    *)

MaxDepDef == 2

DepTypes == {"start", "increment", "mock"}
DepNames == {"metadata", "queryString"}

DependencyEnhanced ==
    {"dynamicDependencyEnhancer(startResolver)",
     "dynamicDependencyEnhancer(incrementResolver)",
     "dynamicDependencyEnhancer(mockResolver)",
     "dynamicDependencyEnhancer(combineToPageResolver)"}

\* the resolver a dynamicDependencyEnhancer(resolver, resolvers) closes over
dependentResolver(enhanced) ==
    CASE enhanced = "dynamicDependencyEnhancer(startResolver)" -> "startResolver"
      [] enhanced = "dynamicDependencyEnhancer(incrementResolver)" -> "incrementResolver"
      [] enhanced = "dynamicDependencyEnhancer(mockResolver)" -> "mockResolver"
      [] enhanced = "dynamicDependencyEnhancer(combineToPageResolver)" -> "combineToPageResolver"

\* the registry: every resolver enhanced, over the registry itself
DepResolvers ==
    <<[type |-> "start", resolverFunc |-> "dynamicDependencyEnhancer(startResolver)"],
      [type |-> "increment", resolverFunc |-> "dynamicDependencyEnhancer(incrementResolver)"],
      [type |-> "mock", resolverFunc |-> "dynamicDependencyEnhancer(mockResolver)"]>>

\* a string property a step may carry before any merging
someString == [tag |-> "string", n |-> 0]

NoOwn == [k \in {} |-> Null]
NoDependency == [name |-> "", definition |-> <<>>]

\* a Step object: its type, its dependency if it has one, its other properties
DepStep(type, hasDependency, name, definition, own) ==
    [type |-> type,
     hasDependency |-> hasDependency,
     dependency |-> IF hasDependency
                    THEN [name |-> name, definition |-> definition]
                    ELSE NoDependency,
     own |-> own]

\* the steps of a dependency's definition: a type, and either no dependency
\* or a dependency 'queryString' on a one-step definition of the given type
SubSteps == [type : DepTypes, nested : {"none", "start", "mock"}]

HasNested(sub) == sub.nested # "none"

\* the objects of a page definition laid out by reference: the top-level
\* steps, then the steps of the owner's dependency, then the steps of theirs
DepHeap(pre, ownerType, hasMetadata, ownerDep, subs, suf) ==
    LET T == Len(pre) + 1 + Len(suf)
        S == Len(subs)
        nestedOf(j) == T + S + Len(SelectSeq(SubSeq(subs, 1, j), HasNested))
        owner == DepStep(ownerType, ownerDep # "none", ownerDep,
                         [j \in 1..S |-> T + j],
                         IF hasMetadata THEN [k \in {"metadata"} |-> someString]
                         ELSE NoOwn)
        plain(type) == DepStep(type, FALSE, "", <<>>, NoOwn)
        tops == [i \in 1..Len(pre) |-> plain(pre[i])] \o <<owner>>
                \o [i \in 1..Len(suf) |-> plain(suf[i])]
        subObjects == [j \in 1..S |->
                        DepStep(subs[j].type, HasNested(subs[j]), "queryString",
                                <<nestedOf(j)>>, NoOwn)]
        nestedSubs == SelectSeq(subs, HasNested)
        nestedObjects == [j \in 1..Len(nestedSubs) |-> plain(nestedSubs[j].nested)]
    IN  tops \o subObjects \o nestedObjects

InitDep ==
    /\ \E pre \in {<<>>, <<"start">>},
          suf \in {<<>>, <<"increment">>},
          ownerType \in DepTypes,
          hasMetadata \in BOOLEAN,
          ownerDep \in {"none"} \cup DepNames,
          subs \in SeqsUpTo(SubSteps, MaxDepDef) :
        /\ ownerDep = "none" => subs = <<>>
        /\ heap = DepHeap(pre, ownerType, hasMetadata, ownerDep, subs, suf)
        /\ props = [hasDefinition |-> TRUE,
                    definition |-> [i \in 1..(Len(pre) + 1 + Len(suf)) |-> i],
                    hasResolvers |-> TRUE,
                    resolvers |-> DepResolvers,
                    render |-> "undefined"]
    /\ constructed = unbuilt
    /\ ctl = [op |-> "entry"]
    /\ stack = <<>>
    /\ log = <<>>
    /\ result = [status |-> "none", value |-> Undefined]
    /\ NoFetchComponents

\* mutant: the result is set only where current has no such property yet
mergeKeepingCurrent(current, name, dependencyResult) ==
    [current EXCEPT !.own =
        [k \in DOMAIN current.own \cup {name} |->
            IF k \in DOMAIN current.own THEN current.own[k] ELSE dependencyResult]]

\* { ...current, [current.dependency.name]: result }
mergeDependency(current, name, dependencyResult) ==
    [current EXCEPT !.own =
        [k \in DOMAIN current.own \cup {name} |->
            IF k = name THEN dependencyResult ELSE current.own[k]]]

\* (resolver, resolvers) => (previous, current, next) => current.dependency ? ... : ...
dynamicDependencyEnhancer ==
    /\ ctl.op = "body"
    /\ ctl.handler \in DependencyEnhanced
    /\ IF heap[ctl.current].hasDependency
       THEN \* <Construct resolvers definition render={result => ...} />: the
            \* nested Construct folds the dependency's definition onto the
            \* render function and calls the chain with null
            /\ ctl' = [op |-> "apply",
                       f |-> reduceRight(heap[ctl.current].dependency.definition,
                                         [fn |-> "dependencyRender",
                                          resolver |-> dependentResolver(ctl.handler),
                                          previous |-> ctl.previous,
                                          current |-> ctl.current,
                                          next |-> ctl.next]),
                       arg |-> initialPrevious]
            /\ log' = Append(log, [ev |-> "dependency", by |-> ctl.current])
       ELSE \* resolver(previous, current, next)
            /\ ctl' = [ctl EXCEPT !.handler = dependentResolver(ctl.handler)]
            /\ log' = Append(log, [ev |-> "inner", by |-> ctl.current,
                                   handler |-> dependentResolver(ctl.handler),
                                   previous |-> ctl.previous, current |-> ctl.current,
                                   next |-> ctl.next])
    /\ UNCHANGED <<props, heap, constructed, stack, result>>
    /\ UNCHANGED fetchVars

\* mutant: Object.assign(current, { [name]: result }), writing into the Step
assignedInPlace(objects, owner, object) ==
    [heap |-> [objects EXCEPT ![owner] = object], ref |-> owner]

\* the object literal { ... } is a new object: the objects after it, and its
\* reference
objectLiteral(objects, owner, object) ==
    [heap |-> Append(objects, object), ref |-> Len(objects) + 1]

\* result => resolver(previous, { ...current, [current.dependency.name]: result }, next)
ApplyDependencyRender ==
    /\ ctl.op = "apply"
    /\ ctl.f.fn = "dependencyRender"
    /\ LET made == objectLiteral(heap, ctl.f.current,
                                 mergeDependency(heap[ctl.f.current],
                                                 heap[ctl.f.current].dependency.name,
                                                 ctl.arg))
       IN  /\ heap' = made.heap
           /\ ctl' = [op |-> "body", handler |-> ctl.f.resolver,
                      previous |-> ctl.f.previous, current |-> made.ref,
                      next |-> ctl.f.next]
           /\ log' = Append(log, [ev |-> "inner", by |-> ctl.f.current,
                                  handler |-> ctl.f.resolver,
                                  previous |-> ctl.f.previous, current |-> made.ref,
                                  next |-> ctl.f.next])
    /\ UNCHANGED <<props, constructed, stack, result>>
    /\ UNCHANGED fetchVars

NextDep ==
    \/ Construct
    \/ ApplyClosure
    \/ startResolver
    \/ incrementResolver
    \/ mockResolver
    \/ dynamicDependencyEnhancer
    \/ ApplyDependencyRender
    \/ ApplyTerminal
    \/ Return

SpecDep == InitDep /\ [][NextDep]_vars


\* the positions of the log where an enhancer called the resolver it wraps
InnerEvents == {k \in 1..Len(log) : log[k].ev = "inner"}

\* what the dependency's chain handed to its terminal continuation before
\* the wrapped resolver was called at position e: the value of the last next
\* of the chain, or the seed null when the dependency's definition is empty
DeliveredBefore(e) ==
    IF log[e - 1].ev = "next" THEN log[e - 1].value ELSE Null

\* C12: for a step with a dependency the wrapped resolver gets a current'
\* with every property of current and the property named by the dependency
\* set to what the dependency's chain delivered, whatever current had under
\* that name; a step without dependency is passed on with its arguments.
C12_DependencyMerged ==
    \A e \in InnerEvents :
        LET o == log[e].by
            merged == heap[log[e].current]
            name == heap[o].dependency.name
        IN  IF heap[o].hasDependency
            THEN /\ merged.type = heap[o].type
                 /\ merged.hasDependency
                 /\ merged.dependency = heap[o].dependency
                 /\ DOMAIN merged.own = DOMAIN heap[o].own \cup {name}
                 /\ \A k \in DOMAIN heap[o].own \ {name} : merged.own[k] = heap[o].own[k]
                 /\ merged.own[name] = DeliveredBefore(e)
            ELSE /\ log[e].current = o
                 /\ \A c \in CallEvents : log[c].current = o =>
                        /\ log[e].previous = log[c].previous
                        /\ log[e].next = log[c].next

\* a dependency 'metadata' on [start] overwrites the step's own metadata
C12_Witness ==
    /\ Done
    /\ \E e \in InnerEvents :
        /\ heap[log[e].by].hasDependency
        /\ heap[log[e].by].dependency.name = "metadata"
        /\ "metadata" \in DOMAIN heap[log[e].by].own
        /\ heap[log[e].by].own["metadata"] = someString
        /\ heap[log[e].current].own["metadata"] = Num(STARTING_VALUE)
    /\ \E e \in InnerEvents : ~heap[log[e].by].hasDependency


\* the Step of a definition that an object passed as current stands for:
\* itself, or the step it was merged from
OriginOf(ref) ==
    IF \E k \in InnerEvents : log[k].current = ref
    THEN log[CHOOSE k \in InnerEvents : log[k].current = ref].by
    ELSE ref

CallsOfStep(s) == {k \in 1..Len(log) : log[k].ev = "call" /\ log[k].current = s}
NextsOfStep(s) == {k \in 1..Len(log) : log[k].ev = "next" /\ OriginOf(log[k].by) = s}
InnerCallsOfStep(s) == {k \in InnerEvents : log[k].by = s}
DependencyStartsOf(s) == {k \in 1..Len(log) : log[k].ev = "dependency" /\ log[k].by = s}

\* the definitions that are run: the page's, and every dependency's
Pipelines ==
    {props.definition} \cup
    {heap[o].dependency.definition : o \in {r \in DOMAIN heap : heap[r].hasDependency}}

\* C13: the wrapped resolver of a step with a dependency is called only
\* after every step of the dependency's definition, nested dependencies
\* included, was called and called next; while some step of the dependency's
\* definition has not called next, neither the wrapped resolver nor any later
\* step of the owner's own definition is called.
C13_DepthFirst ==
    \A P \in Pipelines : \A i \in 1..Len(P) :
        LET o == P[i]
            sub == heap[o].dependency.definition
        IN  heap[o].hasDependency =>
            /\ \A e \in InnerCallsOfStep(o) :
                /\ \E d \in DependencyStartsOf(o) : d < e
                /\ \A j \in 1..Len(sub) :
                    \E d \in DependencyStartsOf(o) :
                    \E c \in CallsOfStep(sub[j]) :
                    \E n \in NextsOfStep(sub[j]) :
                        /\ d < c /\ c < n /\ n < e
                        /\ heap[sub[j]].hasDependency =>
                            \E x \in InnerCallsOfStep(sub[j]) : c < x /\ x < n
            /\ (\E j \in 1..Len(sub) : NextsOfStep(sub[j]) = {}) =>
                /\ InnerCallsOfStep(o) = {}
                /\ \A later \in (i + 1)..Len(P) : CallsOfStep(P[later]) = {}

\* a dependency of two steps, one of them with a dependency of its own, all
\* resolved before the owner's resolver runs
C13_Witness ==
    /\ Done
    /\ \E o \in 1..N :
        /\ heap[o].hasDependency
        /\ Len(heap[o].dependency.definition) = 2
        /\ \E j \in 1..2 : heap[heap[o].dependency.definition[j]].hasDependency
        /\ InnerCallsOfStep(o) # {}


\* the Step objects of the definitions: the page's and the dependencies'
DefinedSteps == UNION {{P[i] : i \in 1..Len(P)} : P \in Pipelines}

\* C14: no step of a Construct call changes a Step object or the arguments
\* of the call (the resolvers list among them), and the current a wrapped
\* resolver gets for a step with a dependency is a new object, none of the
\* definitions' Steps.
C14_StepsUnchanged ==
    [][ /\ props' = props
        /\ \A r \in DOMAIN heap : r \in DOMAIN heap' /\ heap'[r] = heap[r]
        /\ \A e \in InnerEvents' :
            heap[log'[e].by].hasDependency =>
                /\ log'[e].current # log'[e].by
                /\ log'[e].current \notin DefinedSteps
      ]_vars

\* a merge has happened and the owner still has no merged property
C14_Witness ==
    \E e \in InnerEvents :
        /\ heap[log[e].by].hasDependency
        /\ heap[log[e].by].own = NoOwn
        /\ heap[log[e].current].own # NoOwn


----------------------------------------------------------------------------
(* The Fetch component of the README: a Map from url to the state of its    *)
(* request, shared by every mounted Fetch                                   *)

MaxConsumers == 2
MaxRenders == 2

\* FETCH_CACHE.set(url, { status: 'pending', response: null })
pendingEntry == [status |-> "pending", response |-> Null]

\* response.json() of the i-th fetch: a promise of the parsed body
jsonPromise(i) == [tag |-> "promise", n |-> i]

\* { status: 'complete', response: response.json() }
completeEntry(i) == [status |-> "complete", response |-> jsonPromise(i)]

\* mutant: only a complete entry counts as cached
cacheMissUnlessComplete(cachedResponse) == cachedResponse.status # "complete"

\* !cachedResponse, for cachedResponse = FETCH_CACHE.get(url)
cacheMiss(cachedResponse) == cachedResponse.status = "absent"

\* mutant: the entry of a failed request is deleted
evictedOnRejection(entries, url) == [entries EXCEPT ![url] = absentEntry]

\* .catch(console.error): the cache after a request failed
afterRejection(entries, url) == entries

\* render(value): the component hands value to its render prop
delivered(components, c, value) ==
    [components EXCEPT ![c].delivered = Append(@, value)]

\* Fetch.render() of component c: the cache, the requests and the components
\* after it
FetchRender(entries, requests, components, c) ==
    LET url == components[c].url
        cachedResponse == entries[url]
    IN  IF cacheMiss(cachedResponse)
        THEN [cache |-> [entries EXCEPT ![url] = pendingEntry],
              fetches |-> Append(requests, [url |-> url, by |-> c, state |-> "inflight"]),
              consumers |-> delivered(components, c, Null)]
        ELSE IF cachedResponse.status = "complete"
        THEN [cache |-> entries, fetches |-> requests,
              consumers |-> delivered(components, c, cachedResponse.response)]
        ELSE [cache |-> entries, fetches |-> requests,
              consumers |-> delivered(components, c, Null)]

\* no Construct call is running
NoPipeline ==
    /\ props = [hasDefinition |-> TRUE, definition |-> <<>>,
                hasResolvers |-> TRUE, resolvers |-> <<>>, render |-> "undefined"]
    /\ heap = <<>>
    /\ constructed = unbuilt
    /\ ctl = [op |-> "idle"]
    /\ stack = <<>>
    /\ log = <<>>
    /\ result = [status |-> "none", value |-> Undefined]

InitFetch ==
    /\ NoPipeline
    /\ cache = [u \in Urls |-> absentEntry]
    /\ fetches = <<>>
    /\ consumers \in [1..MaxConsumers -> [url : Urls, renders : {0}, delivered : {<<>>}]]

\* React renders component c: on mount, or when its parent renders again
RenderFetch(c) ==
    /\ consumers[c].renders < MaxRenders
    /\ LET after == FetchRender(cache, fetches,
                                [consumers EXCEPT ![c].renders = @ + 1], c)
       IN  /\ cache' = after.cache
           /\ fetches' = after.fetches
           /\ consumers' = after.consumers
    /\ UNCHANGED pipelineVars

\* fetch(url, init) is fulfilled: the then-callback stores the complete
\* entry and calls this.forceUpdate(), which renders the component again
FetchResolves(i) ==
    /\ fetches[i].state = "inflight"
    /\ LET after == FetchRender([cache EXCEPT ![fetches[i].url] = completeEntry(i)],
                                [fetches EXCEPT ![i].state = "resolved"],
                                consumers, fetches[i].by)
       IN  /\ cache' = after.cache
           /\ fetches' = after.fetches
           /\ consumers' = after.consumers
    /\ UNCHANGED pipelineVars

\* fetch(url, init) is rejected: .catch(console.error)
FetchRejects(i) ==
    /\ fetches[i].state = "inflight"
    /\ fetches' = [fetches EXCEPT ![i].state = "rejected"]
    /\ cache' = afterRejection(cache, fetches[i].url)
    /\ UNCHANGED consumers
    /\ UNCHANGED pipelineVars

NextFetch ==
    \/ \E c \in 1..MaxConsumers : RenderFetch(c)
    \/ \E i \in 1..Len(fetches) : FetchResolves(i)
    \/ \E i \in 1..Len(fetches) : FetchRejects(i)

SpecFetch == InitFetch /\ [][NextFetch]_vars

FetchesOf(url) == {i \in 1..Len(fetches) : fetches[i].url = url}
RequestsOf(url) ==
    {c \in 1..MaxConsumers : consumers[c].url = url /\ consumers[c].delivered # <<>>}

\* C15: whatever the order of the components' renders, the fetch of a url is
\* started exactly once: by the first request, which leaves a pending entry;
\* no later request for it, pending or complete, starts another.
C15_OneFetchPerUrl ==
    \A url \in Urls :
        /\ Cardinality(FetchesOf(url)) <= 1
        /\ (RequestsOf(url) # {}) <=> (Cardinality(FetchesOf(url)) = 1)
        /\ (RequestsOf(url) # {}) <=> (cache[url].status # "absent")
        /\ \A i \in FetchesOf(url) : fetches[i].by \in RequestsOf(url)

\* two components of one url, each rendered twice, around the completion
C15_Witness ==
    \E url \in Urls :
        /\ Cardinality(RequestsOf(url)) >= 2
        /\ \A c \in RequestsOf(url) : consumers[c].renders = MaxRenders
        /\ cache[url].status = "complete"
        /\ Cardinality(FetchesOf(url)) = 1


\* C16: the entry of a url goes absent -> pending -> complete and never back:
\* it becomes pending only through a request for the url, a complete entry is
\* never written again, and no step removes an entry.
C16_EntryLifecycle ==
    [][\A url \in Urls :
          /\ cache[url].status = "absent" =>
                /\ cache'[url].status \in {"absent", "pending"}
                /\ cache'[url].status = "pending" =>
                      \E c \in 1..MaxConsumers :
                          /\ consumers[c].url = url
                          /\ consumers'[c].delivered = Append(consumers[c].delivered, Null)
          /\ cache[url].status = "pending" =>
                cache'[url] \in {pendingEntry} \cup {completeEntry(i) : i \in FetchesOf(url)}
          /\ cache[url].status = "complete" => cache'[url] = cache[url]
      ]_vars

\* one url is complete and has been requested again since, while the request
\* of the other has failed and its entry is still pending
C16_Witness ==
    /\ \E i \in 1..Len(fetches) :
          /\ fetches[i].state = "resolved"
          /\ cache[fetches[i].url].status = "complete"
          /\ \E c \in RequestsOf(fetches[i].url) : Len(consumers[c].delivered) >= 3
    /\ \E i \in 1..Len(fetches) :
          /\ fetches[i].state = "rejected"
          /\ cache[fetches[i].url] = pendingEntry


\* every request that was started is settled by the network; nothing makes
\* React render a Fetch again except forceUpdate
FetchSettles == \E i \in 1..Len(fetches) : FetchResolves(i) \/ FetchRejects(i)

SpecFetchLive == InitFetch /\ [][NextFetch]_vars /\ WF_vars(FetchSettles)

ObservedPending(c) ==
    \E k \in 1..Len(consumers[c].delivered) : consumers[c].delivered[k] = Null

ReceivedResult(c) ==
    /\ consumers[c].delivered # <<>>
    /\ consumers[c].delivered[Len(consumers[c].delivered)] = cache[consumers[c].url].response

\* C17: once the request of a url has completed, every component that asked
\* for the url and was handed null is eventually rendered again and hands the
\* stored result to its render prop.
C17_ObserversReinvoked ==
    \A c \in 1..MaxConsumers :
        (ObservedPending(c) /\ cache[consumers[c].url].status = "complete")
            ~> ReceivedResult(c)


----------------------------------------------------------------------------
(* Two invocations: the caller calls Construct a second time with the very  *)
(* props of the first call (a parent that renders again)                    *)

SecondCalls == {k \in 1..Len(log) : log[k].ev = "again"}

\* Construct(props) has returned or thrown; the caller keeps what it got and
\* calls Construct(props) once more
ConstructAgain ==
    /\ ctl.op = "done"
    /\ SecondCalls = {}
    /\ log' = Append(log, [ev |-> "again", first |-> result])
    /\ ctl' = [op |-> "entry"]
    /\ constructed' = unbuilt
    /\ stack' = <<>>
    /\ UNCHANGED <<props, heap, result>>
    /\ UNCHANGED fetchVars

NextTwice ==
    \/ Construct
    \/ ApplyClosure
    \/ startResolver
    \/ incrementResolver
    \/ identityResolverCall
    \/ mockResolver
    \/ ApplyTerminal
    \/ Return
    \/ Throw
    \/ ConstructAgain

SpecTwice == Init /\ [][NextTwice]_vars

SecondCall == CHOOSE k \in SecondCalls : TRUE
FirstLog == SubSeq(log, 1, SecondCall - 1)
SecondLog == SubSeq(log, SecondCall + 1, Len(log))
IsCall(e) == e.ev = "call"

\* C18: a second invocation with the same definition, resolvers and render
\* goes through the same events as the first, step for step (so it calls the
\* same handlers with the same previous and current in the same order), and
\* ends with the same outcome: the same returned value or the same exception.
C18_SameTwice ==
    SecondCalls # {} =>
        /\ Len(SecondLog) <= Len(FirstLog)
        /\ SecondLog = SubSeq(FirstLog, 1, Len(SecondLog))
        /\ Done =>
              /\ SelectSeq(SecondLog, IsCall) = SelectSeq(FirstLog, IsCall)
              /\ SecondLog = FirstLog
              /\ result = log[SecondCall].first

\* both invocations have returned, after at least two handler calls each
C18_Witness ==
    /\ SecondCalls # {}
    /\ Done
    /\ Returned
    /\ Len(SelectSeq(SecondLog, IsCall)) >= 2
    /\ result.value \notin {Null, Undefined}


----------------------------------------------------------------------------
(* The variant of Construct whose getResolver throws when it finds no       *)
(* resolver function                                                        *)

\* a resolvers entry, its resolverFunc possibly left out
FailFastEntries == [type : Types, resolverFunc : Handlers \cup {noResolver}]

\* Error(`Can't fine resolver function for type: ${type}`)
UnresolvedError(type) == [tag |-> "Error", type |-> type]

\* mutant: the lookup of index.js, which falls back to the identity resolver
getResolverOrIdentity(current, resolvers) ==
    [threw |-> FALSE, value |-> getResolver(resolvers, current)]

\* getResolver({ type }, resolvers): the resolverFunc of the first entry of
\* that type, or the exception when there is none
getResolverFailFast(current, resolvers) ==
    LET resolver == find(resolvers, current.type)
    IN  IF resolver = 0 \/ resolvers[resolver].resolverFunc = noResolver
        THEN [threw |-> TRUE, value |-> UnresolvedError(current.type)]
        ELSE [threw |-> FALSE, value |-> resolvers[resolver].resolverFunc]

InitFailFast ==
    /\ \E steps \in SeqsUpTo(Steps, MaxDef),
          resolvers \in SeqsUpTo(FailFastEntries, MaxRes),
          render \in Renders,
          hasDefinition \in BOOLEAN,
          hasResolvers \in BOOLEAN :
        /\ hasDefinition \/ steps = <<>>
        /\ hasResolvers \/ resolvers = <<>>
        /\ heap = steps
        /\ props = [hasDefinition |-> hasDefinition,
                    definition |-> [i \in 1..Len(steps) |-> i],
                    hasResolvers |-> hasResolvers,
                    resolvers |-> resolvers,
                    render |-> render]
    /\ constructed = unbuilt
    /\ ctl = [op |-> "entry"]
    /\ stack = <<>>
    /\ log = <<>>
    /\ result = [status |-> "none", value |-> Undefined]
    /\ NoFetchComponents

\* previous => getResolver(current, resolvers)(previous, current, next)
ApplyClosureFailFast ==
    /\ ctl.op = "apply"
    /\ ctl.f.fn = "closure"
    /\ IF ~props.hasResolvers
       THEN \* resolvers.find of undefined
            /\ ctl' = [op |-> "throw", error |-> TypeError]
            /\ UNCHANGED <<stack, log>>
       ELSE LET current == ctl.f.current
                looked == getResolverFailFast(heap[current], props.resolvers)
            IN  IF looked.threw
                THEN /\ ctl' = [op |-> "throw", error |-> looked.value]
                     /\ UNCHANGED <<stack, log>>
                ELSE /\ ctl' = [op |-> "body", handler |-> looked.value,
                                previous |-> ctl.arg, current |-> current,
                                next |-> ctl.f.next]
                     /\ stack' = Append(stack, [fn |-> "closure", handler |-> looked.value,
                                                current |-> current, next |-> ctl.f.next])
                     /\ log' = Append(log, [ev |-> "call",
                                            entry |-> find(props.resolvers, heap[current].type),
                                            handler |-> looked.value, previous |-> ctl.arg,
                                            current |-> current, next |-> ctl.f.next])
    /\ UNCHANGED <<props, heap, constructed, result>>
    /\ UNCHANGED fetchVars

NextFailFast ==
    \/ Construct
    \/ ApplyClosureFailFast
    \/ startResolver
    \/ incrementResolver
    \/ mockResolver
    \/ ApplyTerminal
    \/ Return
    \/ Throw

SpecFailFast == InitFailFast /\ [][NextFailFast]_vars

\* no entry has the type of step i, or the first that has it has no function
Unresolvable(i) ==
    /\ props.hasResolvers
    /\ \/ \A j \in 1..Len(props.resolvers) : props.resolvers[j].type # heap[i].type
       \/ \E j \in 1..Len(props.resolvers) :
             /\ props.resolvers[j].type = heap[i].type
             /\ props.resolvers[j].resolverFunc = noResolver
             /\ \A u \in 1..(j - 1) : props.resolvers[u].type # heap[i].type

\* every step before step i has called next: the call of the chain gets to i
ReachedBy(i) == \A j \in 1..(i - 1) : NextsOf(j) # {}

\* C19: in the fail-fast variant no handler is called for a step without a
\* resolver function; once the steps before it have all called next, no
\* handler of a later step and no terminal continuation is called either,
\* and the invocation ends with the Error that names the step's type.
C19_UnresolvedFailsFast ==
    \A i \in 1..N : Unresolvable(i) =>
        /\ CallsOf(i) = {}
        /\ ReachedBy(i) =>
              /\ \A j \in (i + 1)..N : CallsOf(j) = {}
              /\ TerminalEvents = {}
              /\ Done => result = [status |-> "threw",
                                   value |-> UnresolvedError(heap[i].type)]

\* two steps ran, the third has an entry without a function, and the error
\* has left Construct
C19_Witness ==
    /\ Done
    /\ N = 3
    /\ CallsOf(1) # {}
    /\ CallsOf(2) # {}
    /\ Unresolvable(3)
    /\ \E j \in 1..Len(props.resolvers) : props.resolvers[j].type = heap[3].type
    /\ result.status = "threw"
    /\ result.value = UnresolvedError(heap[3].type)


FirstUnresolvable == CHOOSE i \in 1..N : Unresolvable(i) /\ \A j \in 1..(i - 1) : ~Unresolvable(j)

\* C20: the resolver of a step is looked up when the step is called, not
\* when the chain is built: a step whose handler returns without calling
\* next ends the invocation with a returned value whatever the types of the
\* steps after it, and an invocation that ends with the unresolved-type Error
\* has called the handler of every step before the first step without a
\* resolver function, once each and in definition order.
C20_LookupWhenCalled ==
    /\ \A i \in 1..N : (StoppedAt(i) /\ Done) => Returned
    /\ \A t \in Types :
          (Done /\ result = [status |-> "threw", value |-> UnresolvedError(t)]) =>
              /\ \E i \in 1..N : Unresolvable(i)
              /\ heap[FirstUnresolvable].type = t
              /\ \A j \in 1..(FirstUnresolvable - 1) : Cardinality(CallsOf(j)) = 1
              /\ \A j, u \in 1..(FirstUnresolvable - 1) :
                    j < u => \A a \in CallsOf(j), b \in CallsOf(u) : a < b

\* a handler that never calls next, followed by a step of a type no entry has
C20_Witness ==
    /\ Done
    /\ Returned
    /\ N >= 2
    /\ StoppedAt(1)
    /\ \A j \in 1..Len(props.resolvers) : props.resolvers[j].type # heap[2].type


----------------------------------------------------------------------------
(* A resolver that throws: combineToPageResolver (README) reads             *)
(* metadata.title and previous.length, a TypeError when either is null or   *)
(* undefined                                                                *)

MaxRaiseDef == 2

RaiseTypes == {"start", "combine-to-page"}

\* the registry: every resolver enhanced, over the registry itself
RaiseResolvers ==
    <<[type |-> "start", resolverFunc |-> "dynamicDependencyEnhancer(startResolver)"],
      [type |-> "increment", resolverFunc |-> "dynamicDependencyEnhancer(incrementResolver)"],
      [type |-> "mock", resolverFunc |-> "dynamicDependencyEnhancer(mockResolver)"],
      [type |-> "combine-to-page",
       resolverFunc |-> "dynamicDependencyEnhancer(combineToPageResolver)"]>>

\* the steps of a dependency's definition: a type, and either no dependency
\* or a dependency 'queryString' on a one-step definition of the given type
RaiseSubSteps == [type : RaiseTypes, nested : {"none", "combine-to-page"}]

InitRaise ==
    /\ \E pre \in {<<>>, <<"start">>, <<"combine-to-page">>},
          suf \in {<<>>, <<"increment">>},
          ownerType \in RaiseTypes \cup {"mock"},
          hasMetadata \in BOOLEAN,
          ownerDep \in {"none", "metadata"},
          subs \in SeqsUpTo(RaiseSubSteps, MaxRaiseDef) :
        /\ ownerDep = "none" => subs = <<>>
        /\ heap = DepHeap(pre, ownerType, hasMetadata, ownerDep, subs, suf)
        /\ props = [hasDefinition |-> TRUE,
                    definition |-> [i \in 1..(Len(pre) + 1 + Len(suf)) |-> i],
                    hasResolvers |-> TRUE,
                    resolvers |-> RaiseResolvers,
                    render |-> "undefined"]
    /\ constructed = unbuilt
    /\ ctl = [op |-> "entry"]
    /\ stack = <<>>
    /\ log = <<>>
    /\ result = [status |-> "none", value |-> Undefined]
    /\ NoFetchComponents

\* { title: metadata.title, subtitle: metadata.subtitle, length: previous.length, items: previous }
pageOf(metadata, previous) == [tag |-> "page", n |-> 0, items |-> previous]

\* reading a property of null or undefined throws a TypeError
combineRaises(previous, current) ==
    \/ "metadata" \notin DOMAIN current.own
    \/ current.own["metadata"] \in {Null, Undefined}
    \/ previous \in {Null, Undefined}

\* mutant: the exception is caught and handed back as the handler's value
caught(error) == [op |-> "return", value |-> error]

\* a throw statement, or an operation that throws: control leaves the function
thrown(error) == [op |-> "throw", error |-> error]

\* (previous, { metadata }, next) => next({ ... })
combineToPageResolver ==
    /\ ctl.op = "body"
    /\ ctl.handler = "combineToPageResolver"
    /\ IF combineRaises(ctl.previous, heap[ctl.current])
       THEN /\ ctl' = thrown(TypeError)
            /\ UNCHANGED <<props, heap, constructed, stack, log, result>>
            /\ UNCHANGED fetchVars
       ELSE CallNext(pageOf(heap[ctl.current].own["metadata"], ctl.previous))

NextRaise ==
    \/ Construct
    \/ ApplyClosure
    \/ startResolver
    \/ incrementResolver
    \/ mockResolver
    \/ combineToPageResolver
    \/ dynamicDependencyEnhancer
    \/ ApplyDependencyRender
    \/ ApplyTerminal
    \/ Return
    \/ Throw

SpecRaise == InitRaise /\ [][NextRaise]_vars


\* the positions of the log where the resolver called there raises
RaisingCalls ==
    {k \in InnerEvents :
        /\ log[k].handler = "combineToPageResolver"
        /\ combineRaises(log[k].previous, heap[log[k].current])}

\* the steps whose dependency is being resolved at position k of the log
OwnersAround(k) ==
    {o \in DOMAIN heap :
        \E d \in DependencyStartsOf(o) :
            d < k /\ \A e \in InnerCallsOfStep(o) : ~(d < e /\ e <= k)}

Failed(url) == \E i \in FetchesOf(url) : fetches[i].state = "rejected"

\* the entry of url is the pending one, its one request is the failed one,
\* and each component of url was handed null at each of its renders, none of
\* them a forceUpdate
Stalled(url) ==
    /\ cache[url] = pendingEntry
    /\ Cardinality(FetchesOf(url)) = 1
    /\ Failed(url)
    /\ \A c \in 1..MaxConsumers : consumers[c].url = url =>
          /\ Len(consumers[c].delivered) = consumers[c].renders
          /\ \A k \in 1..Len(consumers[c].delivered) : consumers[c].delivered[k] = Null

\* C22: once the request of a url has failed, in every later state the entry
\* is still pending, no second request was started for it, no component was
\* force-updated for it, and every render of a component of that url handed
\* null to its render prop.
C22_FailureStallsForever ==
    \A url \in Urls : [](Failed(url) => []Stalled(url))

\* the request failed and two components of the url were each rendered twice
C22_Witness ==
    \E url \in Urls :
        /\ Failed(url)
        /\ Stalled(url)
        /\ Cardinality(RequestsOf(url)) = 2
        /\ \A c \in RequestsOf(url) : consumers[c].renders = MaxRenders


----------------------------------------------------------------------------
(* Fetch components that are unmounted while their request is in flight     *)

\* a mounted Fetch: its url, and how often forceUpdate was called on it
InitAbandon ==
    /\ NoPipeline
    /\ cache = [u \in Urls |-> absentEntry]
    /\ fetches = <<>>
    /\ consumers \in [1..MaxConsumers ->
                        [url : Urls, renders : {0}, delivered : {<<>>},
                         abandoned : {FALSE}, forceUpdates : {0}]]

\* React renders a mounted component
RenderMounted(c) ==
    /\ ~consumers[c].abandoned
    /\ RenderFetch(c)

\* the parent renders something else in its place: React unmounts component
\* c; the Fetch class has no componentWillUnmount and keeps no handle on its
\* request
Abandon(c) ==
    /\ ~consumers[c].abandoned
    /\ consumers' = [consumers EXCEPT ![c].abandoned = TRUE]
    /\ UNCHANGED <<cache, fetches>>
    /\ UNCHANGED pipelineVars

\* mutant: the callback returns early when its component is unmounted
skippedWhenAbandoned(component) == component.abandoned

\* the then-callback tests nothing before it writes and calls forceUpdate
skipped(component) == FALSE

\* fetch(url, init) is fulfilled: the then-callback of the component that
\* started it stores the complete entry and calls this.forceUpdate(); React
\* renders the component again if it is mounted and ignores the call if not
ThenCallback(i) ==
    /\ fetches[i].state = "inflight"
    /\ LET c == fetches[i].by
           settled == [fetches EXCEPT ![i].state = "resolved"]
           stored == [cache EXCEPT ![fetches[i].url] = completeEntry(i)]
           forced == [consumers EXCEPT ![c].forceUpdates = @ + 1]
           after == FetchRender(stored, settled, forced, c)
       IN  IF skipped(consumers[c])
           THEN /\ fetches' = settled
                /\ UNCHANGED <<cache, consumers>>
           ELSE IF consumers[c].abandoned
           THEN /\ fetches' = settled
                /\ cache' = stored
                /\ consumers' = forced
           ELSE /\ fetches' = after.fetches
                /\ cache' = after.cache
                /\ consumers' = after.consumers
    /\ UNCHANGED pipelineVars

NextAbandon ==
    \/ \E c \in 1..MaxConsumers : RenderMounted(c)
    \/ \E c \in 1..MaxConsumers : Abandon(c)
    \/ \E i \in 1..Len(fetches) : ThenCallback(i)
    \/ \E i \in 1..Len(fetches) : FetchRejects(i)

SpecAbandon == InitAbandon /\ [][NextAbandon]_vars

\* C23: nothing cancels a request: while it is in flight its then-callback
\* can run whether or not the component that started it is still mounted,
\* and when it runs it writes the complete entry of the url into the shared
\* cache and calls forceUpdate on that component, abandoned or not.
C23_NoCancellation ==
    /\ [](\A i \in 1..Len(fetches) :
            fetches[i].state = "inflight" => ENABLED ThenCallback(i))
    /\ [][\A i \in 1..Len(fetches) :
            (fetches[i].state = "inflight" /\ fetches'[i].state = "resolved") =>
                /\ cache'[fetches[i].url] = completeEntry(i)
                /\ consumers'[fetches[i].by].forceUpdates
                     = consumers[fetches[i].by].forceUpdates + 1
         ]_vars

\* the request of an abandoned component completed, while another component
\* of the same url was mounted and had rendered
C23_Witness ==
    \E i \in 1..Len(fetches) :
        /\ fetches[i].state = "resolved"
        /\ consumers[fetches[i].by].abandoned
        /\ consumers[fetches[i].by].forceUpdates = 1
        /\ consumers[fetches[i].by].delivered = <<Null>>
        /\ cache[fetches[i].url] = completeEntry(i)
        /\ \E c \in RequestsOf(fetches[i].url) :
              c # fetches[i].by /\ ~consumers[c].abandoned


----------------------------------------------------------------------------
(* dumbFetch: a resolver that returns a promise and calls next from the     *)
(* promise's callback, after the call of Construct has returned             *)

MaxDumbDef == 3

DumbTypes == {"start", "increment", "mock", "fetch"}

DumbResolvers ==
    <<[type |-> "start", resolverFunc |-> "startResolver"],
      [type |-> "increment", resolverFunc |-> "incrementResolver"],
      [type |-> "mock", resolverFunc |-> "mockResolver"],
      [type |-> "fetch", resolverFunc |-> "dumbFetch"]>>

\* current: { url: string }
DumbSteps == [type : DumbTypes, url : {"u1"}]

InitDumb ==
    /\ \E steps \in SeqsUpTo(DumbSteps, MaxDumbDef),
          render \in {"undefined", "renderWithDog"} :
        /\ heap = steps
        /\ props = [hasDefinition |-> TRUE,
                    definition |-> [i \in 1..Len(steps) |-> i],
                    hasResolvers |-> TRUE,
                    resolvers |-> DumbResolvers,
                    render |-> render]
    /\ constructed = unbuilt
    /\ ctl = [op |-> "entry"]
    /\ stack = <<>>
    /\ log = <<>>
    /\ result = [status |-> "none", value |-> Undefined]
    /\ NoFetchComponents

\* the promise fetch(current.url).then(...).then(next) of the j-th call
thenPromise(j) == [tag |-> "thenPromise", n |-> j]

\* mutant: next is handed the Response, as by fetch(current.url).then(next)
rawResponse(j) == [tag |-> "response", n |-> j]

\* what response.json() is fulfilled with
parsedBody(j) == [tag |-> "json", n |-> j]

\* (previous, current, next) => fetch(current.url).then(response => response.json()).then(next)
dumbFetch ==
    /\ ctl.op = "body"
    /\ ctl.handler = "dumbFetch"
    /\ fetches' = Append(fetches, [url |-> heap[ctl.current].url, by |-> ctl.current,
                                   next |-> ctl.next, state |-> "inflight",
                                   value |-> Undefined])
    /\ ctl' = [op |-> "return", value |-> thenPromise(Len(fetches) + 1)]
    /\ UNCHANGED <<props, heap, constructed, stack, log, result, cache, consumers>>

\* the request is answered and the body parses: the promise handed to
\* .then(next) is fulfilled
DumbFetchFulfilled(j) ==
    /\ fetches[j].state = "inflight"
    /\ fetches' = [fetches EXCEPT ![j].state = "parsed"]
    /\ UNCHANGED <<cache, consumers>>
    /\ UNCHANGED pipelineVars

\* fetch or response.json() rejects: then(next) is skipped, nothing catches
DumbFetchRejected(j) ==
    /\ fetches[j].state = "inflight"
    /\ fetches' = [fetches EXCEPT ![j].state = "rejected"]
    /\ UNCHANGED <<cache, consumers>>
    /\ UNCHANGED pipelineVars

\* .then(next): a job of its own, run when no call is on the stack
ThenNext(j) ==
    /\ ctl.op = "done"
    /\ fetches[j].state = "parsed"
    /\ fetches' = [fetches EXCEPT ![j].state = "called"]
    /\ ctl' = [op |-> "apply", f |-> fetches[j].next, arg |-> parsedBody(j)]
    /\ log' = Append(log, [ev |-> "next", by |-> fetches[j].by, value |-> parsedBody(j)])
    /\ UNCHANGED <<props, heap, constructed, stack, result, cache, consumers>>

\* next has returned to the job: its value fulfils the promise dumbFetch
\* returned and goes nowhere else
ThenReturned ==
    /\ ctl.op = "return"
    /\ stack = <<>>
    /\ fetches' = [j \in 1..Len(fetches) |->
                     IF fetches[j].state = "called"
                     THEN [fetches[j] EXCEPT !.state = "settled", !.value = ctl.value]
                     ELSE fetches[j]]
    /\ ctl' = [op |-> "done"]
    /\ UNCHANGED <<props, heap, constructed, stack, log, result, cache, consumers>>

\* what the engine runs by itself: calls on the stack, and queued jobs
RunDumb ==
    \/ Construct
    \/ ApplyClosure
    \/ startResolver
    \/ incrementResolver
    \/ mockResolver
    \/ dumbFetch
    \/ ApplyTerminal
    \/ Return
    \/ \E j \in 1..Len(fetches) : ThenNext(j)
    \/ ThenReturned

NextDumb ==
    \/ RunDumb
    \/ \E j \in 1..Len(fetches) : DumbFetchFulfilled(j)
    \/ \E j \in 1..Len(fetches) : DumbFetchRejected(j)

SpecDumb == InitDumb /\ [][NextDumb]_vars

\* the engine does not stop while a call or a job can run
SpecDumbLive == SpecDumb /\ WF_vars(RunDumb)


\* next of the j-th dumbFetch call has not been called
BeforeNext(j) == fetches[j].state \in {"inflight", "parsed", "rejected"}

DumbSafe ==
    /\ \A j \in 1..Len(fetches) :
          LET i == fetches[j].by
          IN  /\ BeforeNext(j) =>
                    /\ NextsOf(i) = {}
                    /\ \A k \in (i + 1)..N : CallsOf(k) = {}
                    /\ TerminalEvents = {}
              /\ ~BeforeNext(j) =>
                    /\ Cardinality(NextsOf(i)) = 1
                    /\ \A n \in NextsOf(i) : log[n].value = [tag |-> "json", n |-> j]
                    /\ \A k \in (i + 1)..N : \A c \in CallsOf(k) :
                          /\ \A n \in NextsOf(i) : n < c
                          /\ Cardinality(CallsOf(k)) = 1
                          /\ \A u \in (i + 1)..(k - 1) : \E b \in CallsOf(u) : b < c
    /\ (fetches # <<>> /\ \E n \in 1..Len(log) : log[n].ev = "next" /\ log[n].by = fetches[1].by)
          => result = [status |-> "returned", value |-> thenPromise(1)]
    /\ (fetches # <<>> /\ Done) => result = [status |-> "returned", value |-> thenPromise(1)]

\* C24: dumbFetch returns its promise without calling next, so Construct has
\* returned that promise before any handler after the dumbFetch step, or the
\* terminal continuation, runs; once the body has arrived next is called,
\* exactly once and with the parsed body, the later handlers then run once
\* each in definition order, and the value Construct returned stays the
\* promise whatever they return.
C24_DumbFetchDisconnects ==
    /\ []DumbSafe
    /\ \A j \in 1..MaxDumbDef :
          (j <= Len(fetches) /\ fetches[j].state = "parsed")
              ~> (j <= Len(fetches) /\ fetches[j].state = "settled")

\* start, fetch, increment: the increment ran in the promise's job with the
\* body as previous, and Construct's value is still the promise
C24_Witness ==
    /\ N = 3
    /\ heap[1].type = "start"
    /\ heap[2].type = "fetch"
    /\ heap[3].type = "increment"
    /\ Len(fetches) = 1
    /\ fetches[1].state = "settled"
    /\ fetches[1].value \notin {Undefined, thenPromise(1)}
    /\ \E c \in CallsOf(3) : log[c].previous = [tag |-> "json", n |-> 1]
    /\ result = [status |-> "returned", value |-> thenPromise(1)]


\* the steps of the definitions that have a dependency
Owners == {o \in DefinedSteps : heap[o].hasDependency}

\* C25: the chain of a dependency is called with null whatever previous its
\* owner was called with, and the wrapped resolver of the owner is called
\* with the previous and the next the owner was called with, not with what
\* the dependency's chain delivered.
C25_DependencySeededWithNull ==
    \A o \in Owners :
        /\ heap[o].dependency.definition # <<>> =>
              \A c \in CallsOfStep(heap[o].dependency.definition[1]) :
                  /\ log[c].previous = [tag |-> "null", n |-> 0]
                  /\ \E d \in DependencyStartsOf(o) : d < c
        /\ \A e \in InnerCallsOfStep(o) : \A c \in CallsOfStep(o) :
              /\ log[e].previous = log[c].previous
              /\ log[e].next = log[c].next

\* an owner called with 10 whose dependency delivered something else
C25_Witness ==
    /\ Done
    /\ \E o \in Owners : \E e \in InnerCallsOfStep(o) :
          /\ o \in 1..N
          /\ log[e].previous = Num(STARTING_VALUE)
          /\ DeliveredBefore(e) \notin {Null, Num(STARTING_VALUE)}
          /\ \E c \in CallsOfStep(heap[o].dependency.definition[1]) :
                log[c].previous = Null

====
